---- MODULE Spec2Model ----
(***************************************************************************)
(* Model of the cluster query dispatch layer of easy-cass-mcp:             *)
(*   CassandraConnection  (src/cassandra_connection.py)                    *)
(*   CassandraService     (src/ecm/cassandra_service.py)                   *)
(* One asyncio event loop runs the coroutines; every action below is one   *)
(* uninterrupted run of a coroutine between two awaits, or one callback of *)
(* the event loop.  The DataStax driver (Cluster, Session, ResponseFuture) *)
(* is the environment: its calls succeed, raise or stay silent             *)
(* nondeterministically.                                                   *)
(*                                                                         *)
(* A call that ends leaves what its caller sees in obs; the next step      *)
(* (Forget) drops it, so obs always describes the call that has just       *)
(* ended, in the state it ended in.                                        *)
(***************************************************************************)
EXTENDS Integers, Sequences, FiniteSets, TLC

\* ------------------------------------------------------------------------
\* Bounds of the model
\* ------------------------------------------------------------------------
\* cap of the number of open driver handles nothing refers to any more
MaxOrphans == 1

\* the concurrency limit of a dispatch.  src/ecm/constants.py:25 sets 10; the
\* model runs the same code with a limit of 2, so that a cluster of three
\* hosts needs two batches.
MAX_CONCURRENT_QUERIES == 2
\* rows in one result of system_views.thread_pools
MaxRows == 2

\* ------------------------------------------------------------------------
\* Program constants
\* ------------------------------------------------------------------------
\* src/ecm/constants.py:14
QUERY_TIMEOUT == 10
\* src/ecm/constants.py:13
CONNECTION_TIMEOUT == 30

None == "None"

\* Node addresses are strings; the model keeps them as character sequences
\* so that str.replace acts on them.  "1.2" and "1:2" are distinct addresses.
Addr_1_2 == <<"1", ".", "2">>
Addr_1c2 == <<"1", ":", "2">>
Addr_1_3 == <<"1", ".", "3">>
Addrs == {Addr_1_2, Addr_1c2, Addr_1_3}
\* the order in which cluster.metadata.all_hosts() lists the hosts
HostOrder == <<Addr_1_2, Addr_1_3, Addr_1c2>>
NoAddr == <<>>

\* str.replace(old, new) on a character sequence
Replace(s, old, new) == [i \in DOMAIN s |-> IF s[i] = old THEN new ELSE s[i]]

\* cassandra_connection.py:187
\*   profile_name = f"host_{host_address.replace('.', '_').replace(':', '_')}"
ProfileName(host_address) ==
    <<"host_">> \o Replace(Replace(host_address, ".", "_"), ":", "_")

ProfileNames == {ProfileName(a) : a \in Addrs}
NoProfile == [whitelist |-> <<>>, consistency |-> "none"]

\* cassandra_connection.py:105-112, in dict order
StatementNames == <<"select_tables", "select_keyspaces", "select_columns">>

\* tasks that call connect()/disconnect() on the connection
ConnTasks == {"app", "app2"}
\* the task of the specifications with one user of connect() at a time
SoloTask == {"app"}
\* tasks that call execute_on_all_nodes / query_system_table_on_nodes
Dispatchers == {"d1", "d2"}
\* the task of the specifications with one dispatch call at a time
SoloDispatcher == {"d1"}

Min(a, b) == IF a <= b THEN a ELSE b
Max(a, b) == IF a >= b THEN a ELSE b
Range(f) == {f[i] : i \in DOMAIN f}
EmptyMap == [a \in {} |-> "Rows"]

\* the outcome of a call: a returned value or a raised exception
Outcome(type, text, seconds, cause) ==
    [type |-> type, text |-> text, seconds |-> seconds, cause |-> cause]
NoOutcome == Outcome("none", "", 0, "")
Returned(what) == Outcome("return", what, 0, "")

\* arguments of a dispatch call; node_addresses is None (given = FALSE) or a list
Args(op, keyspace, given, addrs) ==
    [op |-> op, keyspace |-> keyspace, given |-> given, node_addresses |-> addrs]
NoArgs == Args("none", "", FALSE, {})

\* what the caller of a call that has just ended sees
NoObs ==
    [call |-> "none", how |-> "", outcome |-> NoOutcome, resumes |-> 0,
     events |-> <<>>, args |-> NoArgs, known |-> {}, hosts |-> <<>>, raised |-> {},
     result |-> EmptyMap, issued |-> <<>>, shutdown |-> {}, err |-> "none",
     address |-> NoAddr, hadProfiles |-> {}, hadStatements |-> {},
     prepared |-> {}]

VARIABLES
    \* ---- CassandraConnection fields (cassandra_connection.py:42-46)
    cluster,              \* self.cluster: "None" or "Cluster"
    session,              \* self.session: "None" or "Session"
    prepared_statements,  \* keys of self.prepared_statements
    execution_profiles,   \* self._execution_profiles
    is_connected,         \* self._is_connected
    \* ---- driver side (environment)
    clusterSt,            \* the object self.cluster refers to: "none" | "open" | "closed"
    sessionSt,            \* the object self.session refers to: "none" | "open" | "closed"
    registered,           \* profiles of the Cluster self.cluster refers to, by name
    orphans,              \* open handles that nothing refers to any more
    \* ---- a task using connect()/disconnect()/async with
    connPc,               \* position inside connect(), or "idle" / "body"
    connScoped,           \* the running connect() was called by __aenter__
    connIdx,              \* index of the statement _prepare_statements is at
    connPrepared,         \* statements the running _prepare_statements prepared
    \* ---- one direct execute_async call
    qPc,                  \* "idle" | "waiting" | "late" (caller gone, callback due)
    qFut,                 \* state of the asyncio future
    qOutcome,             \* what the caller was resumed with
    qResumes,             \* how often the caller was resumed
    \* ---- one execute_on_node call
    nPc, nAddr, nFut, nOutcome, nResumes,
    \* ---- dispatch calls
    dPc,                  \* position of the dispatch call
    dArgs,                \* its arguments
    dKnown,               \* the hosts get_all_hosts() returned to it
    dHosts,               \* hosts / hosts_to_query
    dI,                   \* loop variable i of the batch loop
    dOps,                 \* state of the query_host task of each batch member
    dRaised,              \* hosts whose execute_on_host raised
    dQueryResults,        \* query_results
    dIssued,              \* hosts whose per-host operation was started, in order
    \* ---- observation
    obs,                  \* the call that has just ended, as its caller sees it
    regCount,             \* this connection lifetime, per address: registrations
    \* ---- ThreadPoolStats fields (ecm/thread_pool_stats.py:37-39)
    pools,                \* self._pools: statistics by thread pool name
    loaded                \* self._loaded

connVars == <<cluster, session, prepared_statements, execution_profiles, is_connected>>
driverVars == <<clusterSt, sessionSt, registered, orphans>>
taskVars == <<connPc, connScoped, connIdx, connPrepared>>
qVars == <<qPc, qFut, qOutcome, qResumes>>
nVars == <<nPc, nAddr, nFut, nOutcome, nResumes>>
dVars == <<dPc, dArgs, dKnown, dHosts, dI, dOps, dRaised, dQueryResults, dIssued>>
lifeVars == <<regCount>>
statsVars == <<pools, loaded>>
vars == <<connVars, driverVars, taskVars, qVars, nVars, dVars, obs, lifeVars, statsVars>>

\* thread pools, and the rows system_views.thread_pools delivers: one row per
\* pool and node, at most MaxRows rows in a result
PoolNames == {"ReadStage", "CompactionExecutor"}
TaskCounts == {1, 2}
Rows == [name : PoolNames, active_tasks : TaskCounts, active_tasks_limit : TaskCounts]
ResultSets == UNION {[1..n -> Rows] : n \in 0..MaxRows}
NoPools == [n \in {} |-> [active |-> 0, active_limit |-> 0]]

\* ------------------------------------------------------------------------
\* Initial state: CassandraConnection.__init__ (cassandra_connection.py:27-46)
\* and CassandraService.__init__; no task has started.
\* ------------------------------------------------------------------------
Init ==
    /\ cluster = None
    /\ session = None
    /\ prepared_statements = {}
    /\ execution_profiles = {}
    /\ is_connected = FALSE
    /\ pools = NoPools
    /\ loaded = FALSE
    /\ clusterSt = "none"
    /\ sessionSt = "none"
    /\ registered = [k \in ProfileNames |-> NoProfile]
    /\ orphans = 0
    /\ connPc = [t \in ConnTasks |-> "idle"]
    /\ connScoped = [t \in ConnTasks |-> FALSE]
    /\ connIdx = [t \in ConnTasks |-> 0]
    /\ connPrepared = [t \in ConnTasks |-> {}]
    /\ qPc = "idle" /\ qFut = None /\ qOutcome = NoOutcome /\ qResumes = 0
    /\ nPc = "idle" /\ nAddr = NoAddr /\ nFut = None /\ nOutcome = NoOutcome
    /\ nResumes = 0
    /\ dPc = [d \in Dispatchers |-> "idle"]
    /\ dArgs = [d \in Dispatchers |-> NoArgs]
    /\ dKnown = [d \in Dispatchers |-> {}]
    /\ dHosts = [d \in Dispatchers |-> <<>>]
    /\ dI = [d \in Dispatchers |-> 0]
    /\ dOps = [d \in Dispatchers |-> <<>>]
    /\ dRaised = [d \in Dispatchers |-> {}]
    /\ dQueryResults = [d \in Dispatchers |-> <<>>]
    /\ dIssued = [d \in Dispatchers |-> <<>>]
    /\ obs = NoObs
    /\ regCount = [a \in Addrs |-> 0]

\* What the environment of the connection may do: who calls connect()
\* (scoped: through "async with"), how the driver's Cluster(), connect(),
\* prepare() and shutdown() calls end.
AnyEnv ==
    [scoped |-> BOOLEAN,
     cluster |-> {"ok", "TimeoutError", "Exception"},
     session |-> {"ok", "TimeoutError", "TimeoutError_late", "Exception"},
     prepare |-> BOOLEAN,
     shutdown |-> {"none", "session", "cluster"}]
\* a driver whose calls succeed, and a caller that uses
\* connect()/disconnect() directly
CalmEnv ==
    [scoped |-> {FALSE},
     cluster |-> {"ok"},
     session |-> {"ok"},
     prepare |-> {TRUE},
     shutdown |-> {"none"}]

\* any driver, and a caller that uses the connection through "async with"
ScopedEnv == [AnyEnv EXCEPT !.scoped = {TRUE}]

\* a driver whose shutdown calls may raise
ThrowingEnv == [CalmEnv EXCEPT !.shutdown = {"none", "session", "cluster"}]

\* no call has just ended: the next step of the program may run
Quiet == obs.call = "none"

\* the caller has looked at the outcome of the call that ended
Forget ==
    /\ obs.call # "none"
    /\ obs' = NoObs
    /\ UNCHANGED <<connVars, driverVars, taskVars, qVars, nVars, dVars, lifeVars>>
    /\ UNCHANGED statsVars

\* ------------------------------------------------------------------------
\* connect()  (cassandra_connection.py:48-96)
\* ------------------------------------------------------------------------
\* connect() without its except clauses: the error leaves as it came
ConnectErrorUnwrapped(exc) == Outcome(exc, "", 0, "")

\* the except clauses of connect(), lines 90-96
ConnectError(exc) ==
    IF exc = "TimeoutError"
    THEN Outcome("CassandraConnectionError", "Connection timeout after {} seconds",
                 CONNECTION_TIMEOUT, "")
    ELSE Outcome("CassandraConnectionError", "Failed to connect: {}", 0, exc)

\* connect() leaves by an exception; __aenter__ (line 253) lets it
\* propagate, so the body of "async with" is not entered and __aexit__ does
\* not run.
ConnectRaiseSwallowed(t, exc) ==
    /\ obs' = [NoObs EXCEPT !.call = IF connScoped[t] THEN "aenter" ELSE "connect",
                            !.err = exc,
                            !.outcome = ConnectError(exc)]
    /\ connPc' = [connPc EXCEPT ![t] = IF connScoped[t] THEN "body" ELSE "idle"]
    /\ connScoped' = [connScoped EXCEPT ![t] = FALSE]
    /\ connIdx' = [connIdx EXCEPT ![t] = 0]
    /\ connPrepared' = [connPrepared EXCEPT ![t] = {}]

ConnectRaise(t, exc) ==
    /\ obs' = [NoObs EXCEPT !.call = IF connScoped[t] THEN "aenter" ELSE "connect",
                            !.err = exc,
                            !.outcome = ConnectError(exc)]
    /\ connPc' = [connPc EXCEPT ![t] = "idle"]
    /\ connScoped' = [connScoped EXCEPT ![t] = FALSE]
    /\ connIdx' = [connIdx EXCEPT ![t] = 0]
    /\ connPrepared' = [connPrepared EXCEPT ![t] = {}]

\* connect() returns; under __aenter__ the body of "async with" starts.
\* prepared: the statements this call prepared
ConnectReturn(t, scoped, how, prepared) ==
    /\ obs' = [NoObs EXCEPT !.call = IF scoped THEN "aenter" ELSE "connect",
                            !.outcome = Returned(how),
                            !.prepared = prepared]
    /\ connPc' = [connPc EXCEPT ![t] = IF scoped THEN "body" ELSE "idle"]
    /\ connScoped' = [connScoped EXCEPT ![t] = FALSE]
    /\ connIdx' = [connIdx EXCEPT ![t] = 0]
    /\ connPrepared' = [connPrepared EXCEPT ![t] = {}]

\* a connect() without the check of lines 54-56
AlreadyConnectedUnchecked == FALSE

\* lines 54-56: "if self._is_connected: ... return"
AlreadyConnected == is_connected

\* lines 54-75: the already-connected check, then the first await
\* (scoped: the call comes from __aenter__, line 253)
Connect(t, env) ==
    /\ Quiet
    /\ connPc[t] = "idle"
    /\ \E scoped \in env.scoped :
        IF AlreadyConnected
        THEN ConnectReturn(t, scoped, "already_connected", {})
        ELSE /\ connPc' = [connPc EXCEPT ![t] = "mk_cluster"]
             /\ connScoped' = [connScoped EXCEPT ![t] = scoped]
             /\ UNCHANGED <<connIdx, connPrepared, obs>>
    /\ UNCHANGED <<connVars, driverVars, qVars, nVars, dVars, lifeVars>>
    /\ UNCHANGED statsVars

\* lines 79-82: Cluster(**cluster_kwargs) in the executor, under wait_for.
\* The new handle replaces whatever self.cluster referred to.
ClusterCreated(t, env) ==
    /\ Quiet
    /\ connPc[t] = "mk_cluster"
    /\ \E outcome \in env.cluster :
        IF outcome = "ok"
        THEN /\ clusterSt = "open" => orphans < MaxOrphans
             /\ cluster' = "Cluster"
             /\ clusterSt' = "open"
             /\ registered' = [k \in ProfileNames |-> NoProfile]
             /\ orphans' = IF clusterSt = "open" THEN orphans + 1 ELSE orphans
             /\ connPc' = [connPc EXCEPT ![t] = "open_session"]
             /\ UNCHANGED <<connScoped, connIdx, connPrepared, obs>>
        ELSE /\ ConnectRaise(t, outcome)
             /\ UNCHANGED <<cluster, clusterSt, registered, orphans>>
    /\ UNCHANGED <<session, prepared_statements, execution_profiles, is_connected,
                   sessionSt, qVars, nVars, dVars, lifeVars>>
    /\ UNCHANGED statsVars

\* lines 83-88: self.cluster.connect in the executor, under wait_for; on
\* success the flag is set before _prepare_statements awaits.  After a
\* timeout the executor thread may still open the session ("late"), which
\* nothing refers to.
SessionOpened(t, env) ==
    /\ Quiet
    /\ connPc[t] = "open_session"
    /\ \E outcome \in env.session :
        IF outcome = "ok"
        THEN /\ sessionSt = "open" => orphans < MaxOrphans
             /\ session' = "Session"
             /\ sessionSt' = "open"
             /\ orphans' = IF sessionSt = "open" THEN orphans + 1 ELSE orphans
             /\ is_connected' = TRUE
             /\ connPc' = [connPc EXCEPT ![t] = "prepare"]
             /\ connIdx' = [connIdx EXCEPT ![t] = 1]
             /\ regCount' = [a \in Addrs |-> 0]
             /\ UNCHANGED <<connScoped, connPrepared, obs>>
        ELSE /\ outcome = "TimeoutError_late" => orphans < MaxOrphans
             /\ ConnectRaise(t, IF outcome = "Exception" THEN outcome ELSE "TimeoutError")
             /\ orphans' = IF outcome = "TimeoutError_late" THEN orphans + 1 ELSE orphans
             /\ UNCHANGED <<session, sessionSt, is_connected, lifeVars>>
    /\ UNCHANGED <<cluster, prepared_statements, execution_profiles,
                   clusterSt, registered, qVars, nVars, dVars>>
    /\ UNCHANGED statsVars

\* an assignment that stores an entry whether or not prepare raised
StatementStoredAlways(cache, name, ok) == cache \cup {name}

\* lines 115-123: the assignment runs only if the awaited prepare returned;
\* a prepare that raised is logged and the entry is skipped
StatementStored(cache, name, ok) == IF ok THEN cache \cup {name} ELSE cache

\* _prepare_statements(), lines 114-123: one statement per await; a failing
\* prepare is logged and skipped
PrepareStatement(t, env) ==
    /\ Quiet
    /\ connPc[t] = "prepare"
    /\ \E ok \in env.prepare :
        LET name == StatementNames[connIdx[t]]
            done == IF ok THEN connPrepared[t] \cup {name} ELSE connPrepared[t]
        IN  /\ prepared_statements' = StatementStored(prepared_statements, name, ok)
            /\ IF connIdx[t] = Len(StatementNames)
               THEN ConnectReturn(t, connScoped[t], "connected", done)
               ELSE /\ connIdx' = [connIdx EXCEPT ![t] = @ + 1]
                    /\ connPrepared' = [connPrepared EXCEPT ![t] = done]
                    /\ UNCHANGED <<connPc, connScoped, obs>>
    /\ UNCHANGED <<cluster, session, execution_profiles, is_connected, driverVars,
                   qVars, nVars, dVars, lifeVars>>
    /\ UNCHANGED statsVars

\* ------------------------------------------------------------------------
\* disconnect()  (cassandra_connection.py:231-249)
\* ------------------------------------------------------------------------
\* the cleanup of lines 245-249 placed after the shutdown calls inside the
\* try block instead of in a finally block
DisconnectCleanupInTry(err) ==
    IF err = "none"
    THEN [is_connected |-> FALSE, execution_profiles |-> {}, prepared_statements |-> {}]
    ELSE [is_connected |-> is_connected, execution_profiles |-> execution_profiles,
          prepared_statements |-> prepared_statements]

\* the finally block, lines 245-249: runs whatever the shutdown calls did
DisconnectCleanup(err) ==
    [is_connected |-> FALSE, execution_profiles |-> {}, prepared_statements |-> {}]

\* "except Exception" of line 243: does the error leave disconnect()?
DisconnectPropagates(err) == FALSE

\* a disconnect() without the check of lines 233-235
NotConnectedUnchecked == FALSE

\* lines 233-235: "if not self._is_connected: ... return"
NotConnected == ~is_connected

\* err: which shutdown call raises ("none", "session" or "cluster");
\* call: "disconnect", or "aexit" with how the body ended
DisconnectBody(err, call, how) ==
    IF NotConnected
    THEN /\ obs' = [NoObs EXCEPT !.call = call, !.how = how,
                                 !.outcome = Returned("skipped")]
         /\ UNCHANGED <<connVars, driverVars, lifeVars>>
    ELSE LET sessCalled == session # None
             sessRaised == sessCalled /\ err = "session"
             clusCalled == ~sessRaised /\ cluster # None
             clusRaised == clusCalled /\ err = "cluster"
             raised == sessRaised \/ clusRaised
             after == DisconnectCleanup(IF raised THEN err ELSE "none")
         IN  /\ sessionSt' = IF sessCalled /\ ~sessRaised THEN "closed" ELSE sessionSt
             /\ clusterSt' = IF clusCalled /\ ~clusRaised THEN "closed" ELSE clusterSt
             /\ is_connected' = after.is_connected
             /\ execution_profiles' = after.execution_profiles
             /\ prepared_statements' = after.prepared_statements
             /\ obs' = [NoObs EXCEPT
                          !.call = call, !.how = how,
                          !.hadProfiles = execution_profiles,
                          !.hadStatements = prepared_statements,
                          !.err = IF raised THEN err ELSE "none",
                          !.shutdown = (IF sessCalled THEN {"session"} ELSE {})
                                       \cup (IF clusCalled THEN {"cluster"} ELSE {}),
                          !.outcome = IF raised /\ DisconnectPropagates(err)
                                      THEN Outcome("Exception", "", 0, err)
                                      ELSE Returned("disconnected")]
             /\ regCount' = [a \in Addrs |-> 0]
             /\ UNCHANGED <<cluster, session, registered, orphans>>

\* disconnect() called directly; it is synchronous, so it is one step
Disconnect(env) ==
    /\ Quiet
    /\ \E err \in env.shutdown : DisconnectBody(err, "disconnect", "")
    /\ UNCHANGED <<taskVars, qVars, nVars, dVars>>
    /\ UNCHANGED statsVars

\* __aexit__ (lines 256-258): the body of "async with" ends, normally or by
\* an exception, and disconnect() runs
ScopeExit(t, env) ==
    /\ Quiet
    /\ connPc[t] = "body"
    /\ \E how \in {"normal", "exception"}, err \in env.shutdown :
        DisconnectBody(err, "aexit", how)
    /\ connPc' = [connPc EXCEPT ![t] = "idle"]
    /\ UNCHANGED <<connScoped, connIdx, connPrepared, qVars, nVars, dVars>>
    /\ UNCHANGED statsVars

\* get_all_hosts(), lines 169-180: the membership snapshot H is what
\* cluster.metadata.all_hosts() answers at the time of the call
\* a membership read that does not look at the connection state
GetAllHostsUnchecked(H) == SelectSeq(HostOrder, LAMBDA a : a \in H)

GetAllHosts(H) ==
    IF cluster = None \/ ~is_connected
    THEN <<>>
    ELSE SelectSeq(HostOrder, LAMBDA a : a \in H)

\* ------------------------------------------------------------------------
\* The callback-to-awaitable bridge (cassandra_connection.py:143-167, 204-229)
\* ------------------------------------------------------------------------
\* asyncio.Future.set_result / set_exception, run by the event loop for
\* loop.call_soon_threadsafe(future.set_result, result) (lines 153, 156, 216,
\* 219): a pending future takes the value; on a future that is already done
\* or cancelled the call raises InvalidStateError inside the event-loop
\* callback.
FutureSet(fut, kind) ==
    IF fut = "pending"
    THEN [fut |-> IF kind = "success" THEN "result" ELSE "exception", raised |-> FALSE]
    ELSE [fut |-> fut, raised |-> TRUE]

\* the event loop's exception handler gets an exception of a callback
LoopError(source, events) ==
    [NoObs EXCEPT !.call = "loop_callback", !.how = source, !.events = events,
                  !.outcome = Outcome("InvalidStateError", "", 0, "")]

\* execute_async with the single clause "except Exception" only
QueryErrorOneClause(exc) ==
    Outcome("CassandraQueryError", "Query execution failed: {}", 0, exc)

\* the except clauses of execute_async, lines 164-167
QueryError(exc) ==
    IF exc = "TimeoutError"
    THEN Outcome("CassandraQueryError", "Query timeout after {} seconds", QUERY_TIMEOUT, "")
    ELSE Outcome("CassandraQueryError", "Query execution failed: {}", 0, exc)

\* execute_async without the check of lines 140-141: the call on
\* self.session fails inside the try block
NotConnectedUncheckedError ==
    Outcome("CassandraQueryError", "Query execution failed: {}", 0, "AttributeError")

\* line 141
NotConnectedError == Outcome("CassandraQueryError", "Not connected to Cassandra", 0, "")

\* what the driver may answer to session.execute_async(...): the request is
\* accepted (a ResponseFuture is returned) or the call raises at once; with
\* no session object (None) the attribute access raises.
DriverAnswers == IF session = None THEN {"raises"} ELSE {"accepted", "raises"}

\* the event that resumed the caller, read off the outcome
FirstEvent(outcome) ==
    IF outcome.type = "CancelledError" THEN "cancel" ELSE "timeout"

ExecAsyncObs(outcome, resumes, events) ==
    [NoObs EXCEPT !.call = "execute_async", !.outcome = outcome,
                  !.resumes = resumes, !.events = events]

\* execute_async(), lines 140-163 up to the await of wait_for
ExecAsyncCall ==
    /\ Quiet
    /\ qPc = "idle"
    /\ IF ~is_connected
       THEN /\ obs' = ExecAsyncObs(NotConnectedError, 1, <<>>)
            /\ UNCHANGED qVars
       ELSE \E answer \in DriverAnswers :
              IF answer = "raises"
              THEN /\ obs' = ExecAsyncObs(QueryError("DriverException"), 1, <<>>)
                   /\ UNCHANGED qVars
              ELSE /\ qPc' = "waiting" /\ qFut' = "pending"
                   /\ UNCHANGED <<qOutcome, qResumes, obs>>
    /\ UNCHANGED <<connVars, driverVars, taskVars, nVars, dVars, lifeVars>>
    /\ UNCHANGED statsVars

\* the driver calls on_success / on_error (lines 152-156) and the event loop
\* runs future.set_result / future.set_exception
ExecAsyncCallback ==
    /\ Quiet
    /\ qPc \in {"waiting", "late"}
    /\ \E kind \in {"success", "error"} :
        LET set == FutureSet(qFut, kind) IN
        IF set.raised
        THEN /\ obs' = LoopError("execute_async", <<FirstEvent(qOutcome), kind>>)
        ELSE /\ obs' = ExecAsyncObs(IF kind = "success" THEN Returned("result")
                                    ELSE QueryError("DriverException"),
                                    qResumes + 1, <<kind>>)
    /\ qPc' = "idle" /\ qFut' = None /\ qOutcome' = NoOutcome /\ qResumes' = 0
    /\ UNCHANGED <<connVars, driverVars, taskVars, nVars, dVars, lifeVars>>
    /\ UNCHANGED statsVars

\* asyncio.wait_for(future, timeout=QUERY_TIMEOUT), line 163: the bound
\* elapses first; wait_for cancels the future and raises TimeoutError
\* a timeout clause that marks the connection as lost
ConnectedAfterTimeoutCleared == FALSE

\* lines 164-165: the timeout clause raises and assigns no field
ConnectedAfterTimeout == is_connected

ExecAsyncTimeout ==
    /\ Quiet
    /\ qPc = "waiting" /\ qFut = "pending"
    /\ qFut' = "cancelled"
    /\ qResumes' = qResumes + 1
    /\ qOutcome' = QueryError("TimeoutError")
    /\ qPc' = "late"
    /\ obs' = ExecAsyncObs(qOutcome', qResumes', <<"timeout">>)
    /\ is_connected' = ConnectedAfterTimeout
    /\ UNCHANGED <<cluster, session, prepared_statements, execution_profiles,
                   driverVars, taskVars, nVars, dVars, lifeVars>>
    /\ UNCHANGED statsVars

\* the task awaiting execute_async is cancelled: CancelledError is no
\* Exception, so neither except clause catches it
ExecAsyncCancel ==
    /\ Quiet
    /\ qPc = "waiting" /\ qFut = "pending"
    /\ qFut' = "cancelled"
    /\ qResumes' = qResumes + 1
    /\ qOutcome' = Outcome("CancelledError", "", 0, "")
    /\ qPc' = "late"
    /\ obs' = ExecAsyncObs(qOutcome', qResumes', <<"cancel">>)
    /\ UNCHANGED <<connVars, driverVars, taskVars, nVars, dVars, lifeVars>>
    /\ UNCHANGED statsVars

\* ------------------------------------------------------------------------
\* execute_on_host(): the routing step  (cassandra_connection.py:186-198)
\* ------------------------------------------------------------------------
\* ExecutionProfile(WhiteListRoundRobinPolicy([host_address]), ConsistencyLevel.ONE)
HostProfile(host_address) == [whitelist |-> <<host_address>>, consistency |-> "ONE"]

\* Lines 187-197 on the state st = [profiles, registered, regCount].
\* add: what cluster.add_execution_profile does ("ok" or "raises"); the
\* driver refuses a name its cluster already has, and None has no method.
\* The result also says whether the step raised.
RoutingStep(st, host_address, add) ==
    LET profile_name == ProfileName(host_address)
        count(x) ==
            IF is_connected THEN [x EXCEPT !.regCount[host_address] = @ + 1] ELSE x
    IN  IF profile_name \in st.profiles
        THEN [st EXCEPT !.raised = FALSE]
        ELSE IF \/ cluster = None
                \/ add = "raises"
                \/ st.registered[profile_name] # NoProfile
             THEN [st EXCEPT !.raised = TRUE]
             ELSE count([st EXCEPT !.raised = FALSE,
                                   !.profiles = @ \cup {profile_name},
                                   !.registered[profile_name] = HostProfile(host_address)])

\* session.execute_async(..., execution_profile=profile_name), lines 210-212:
\* the driver raises at once for a profile name its cluster does not hold
HostAnswers(reg, host_address) ==
    IF reg[ProfileName(host_address)] = NoProfile THEN {"raises"} ELSE DriverAnswers

RoutingState ==
    [profiles |-> execution_profiles, registered |-> registered,
     regCount |-> regCount, raised |-> FALSE]

\* ------------------------------------------------------------------------
\* execute_on_node() -> execute_on_host()  (cassandra_service.py:105-117)
\* ------------------------------------------------------------------------
\* how: where the call ended ("routing": lines 187-198, "execute": line 210,
\* "await": line 226)
ExecOnNodeObs(a, how, outcome, resumes, events) ==
    [NoObs EXCEPT !.call = "execute_on_node", !.how = how, !.address = a,
                  !.outcome = outcome, !.resumes = resumes, !.events = events]

ExecOnNodeCall ==
    /\ Quiet
    /\ nPc = "idle"
    /\ \E a \in Addrs, add \in {"ok", "raises"} :
        LET st == RoutingStep(RoutingState, a, add) IN
        \E answer \in HostAnswers(st.registered, a) :
        /\ execution_profiles' = st.profiles
        /\ registered' = st.registered
        /\ regCount' = st.regCount
        /\ IF st.raised \/ answer = "raises"
           THEN /\ obs' = ExecOnNodeObs(a, IF st.raised THEN "routing" ELSE "execute",
                                        Outcome("DriverException", "", 0, ""), 1, <<>>)
                /\ UNCHANGED nVars
           ELSE /\ nPc' = "waiting" /\ nFut' = "pending" /\ nAddr' = a
                /\ UNCHANGED <<nOutcome, nResumes, obs>>
    /\ UNCHANGED <<cluster, session, prepared_statements, is_connected,
                   clusterSt, sessionSt, orphans, taskVars, qVars, dVars>>
    /\ UNCHANGED statsVars

\* on_success / on_error of execute_on_host (lines 215-219); "await future"
\* (line 226) has no wait_for around it
ExecOnNodeCallback ==
    /\ Quiet
    /\ nPc \in {"waiting", "late"}
    /\ \E kind \in {"success", "error"} :
        LET set == FutureSet(nFut, kind) IN
        IF set.raised
        THEN /\ obs' = LoopError("execute_on_host", <<FirstEvent(nOutcome), kind>>)
        ELSE /\ obs' = ExecOnNodeObs(nAddr, "await",
                                     IF kind = "success" THEN Returned("result")
                                     ELSE Outcome("DriverException", "", 0, ""),
                                     nResumes + 1, <<kind>>)
    /\ nPc' = "idle" /\ nFut' = None /\ nOutcome' = NoOutcome /\ nResumes' = 0
    /\ nAddr' = NoAddr
    /\ UNCHANGED <<connVars, driverVars, taskVars, qVars, dVars, lifeVars>>
    /\ UNCHANGED statsVars

\* the task awaiting execute_on_node is cancelled
ExecOnNodeCancel ==
    /\ Quiet
    /\ nPc = "waiting" /\ nFut = "pending"
    /\ nFut' = "cancelled"
    /\ nResumes' = nResumes + 1
    /\ nOutcome' = Outcome("CancelledError", "", 0, "")
    /\ nPc' = "late"
    /\ obs' = ExecOnNodeObs(nAddr, "await", nOutcome', nResumes', <<"cancel">>)
    /\ UNCHANGED <<nAddr, connVars, driverVars, taskVars, qVars, dVars, lifeVars>>
    /\ UNCHANGED statsVars

\* ------------------------------------------------------------------------
\* Dispatch: execute_on_all_nodes (cassandra_service.py:119-163) and
\* query_system_table_on_nodes (cassandra_service.py:268-346)
\* ------------------------------------------------------------------------
\* line 285
ValidKeyspaces == {"system", "system_views"}
Keyspaces == ValidKeyspaces \cup {"ks1"}

AllNodesArgs == {Args("all", "", FALSE, {})}
\* every target list with 'system'; the other keyspaces with no list and
\* with one list
TableArgs == {Args("table", "system", TRUE, T) : T \in SUBSET Addrs}
             \cup {Args("table", ks, FALSE, {}) : ks \in Keyspaces}
             \cup {Args("table", ks, TRUE, {Addr_1_3}) : ks \in Keyspaces}
DispatchArgs == AllNodesArgs \cup TableArgs

\* a call that does not validate its keyspace
InvalidKeyspaceUnchecked(args) == FALSE

\* lines 285-288: only query_system_table_on_nodes has a keyspace to validate
InvalidKeyspace(args) == args.op = "table" /\ args.keyspace \notin ValidKeyspaces

\* "if node_addresses:" (line 304): None and the empty list are both false
Truthy(args) == args.given /\ args.node_addresses # {}

\* lines 303-312: hosts_to_query (for execute_on_all_nodes: hosts, line 126)
HostsToQuery(args, all_hosts) ==
    IF args.op = "table" /\ Truthy(args)
    THEN SelectSeq(all_hosts, LAMBDA h : h \in args.node_addresses)
    ELSE all_hosts

\* a batch loop that creates the tasks of all hosts at once
BatchSizeUnbounded(hosts) == Len(hosts)

\* lines 149 / 332
BatchSize(hosts) == Min(MAX_CONCURRENT_QUERIES, Len(hosts))

\* a slice taken without the loop offset: every batch is the first one
BatchFromStart(hosts, i) == SubSeq(hosts, 1, Min(BatchSize(hosts), Len(hosts)))

\* lines 153 / 336: hosts[i : i + batch_size]
Batch(hosts, i) == SubSeq(hosts, i + 1, Min(i + BatchSize(hosts), Len(hosts)))

\* query_host without its try/except: the exception leaves the task
QueryHostUncaught(host_address, raised) ==
    [address |-> host_address, result |-> "Rows", escapes |-> raised]

\* query_host, lines 134-145 / 317-328: the per-target wrapper.
\* raised: execute_on_host left by an exception (caught by "except Exception")
QueryHost(host_address, raised) ==
    [address |-> host_address,
     result |-> IF raised THEN "Failure" ELSE "Rows",
     escapes |-> FALSE]

DispatchObs(d, how, result) ==
    [NoObs EXCEPT !.call = "dispatch", !.how = how, !.args = dArgs[d],
                  !.known = dKnown[d], !.hosts = dHosts[d], !.raised = dRaised[d],
                  !.issued = dIssued[d], !.result = result]

DispatchReset(d) ==
    /\ dPc' = [dPc EXCEPT ![d] = "idle"]
    /\ dArgs' = [dArgs EXCEPT ![d] = NoArgs]
    /\ dKnown' = [dKnown EXCEPT ![d] = {}]
    /\ dHosts' = [dHosts EXCEPT ![d] = <<>>]
    /\ dI' = [dI EXCEPT ![d] = 0]
    /\ dOps' = [dOps EXCEPT ![d] = <<>>]
    /\ dRaised' = [dRaised EXCEPT ![d] = {}]
    /\ dQueryResults' = [dQueryResults EXCEPT ![d] = <<>>]
    /\ dIssued' = [dIssued EXCEPT ![d] = <<>>]

\* The call up to its first await: validation, snapshot, filtering and the
\* creation of the tasks of the first batch (lines 285-338 / 126-155).
\* H is the membership cluster.metadata.all_hosts() reports.
DispatchCall(d, argSet) ==
    /\ Quiet
    /\ dPc[d] = "idle"
    /\ \E args \in argSet, H \in SUBSET Addrs :
        LET all_hosts == GetAllHosts(H)
            hosts == HostsToQuery(args, all_hosts)
            invalid == InvalidKeyspace(args)
        IN  IF invalid
            THEN /\ obs' = [NoObs EXCEPT !.call = "dispatch", !.how = "raised",
                                         !.args = args,
                                         !.outcome = Outcome("ValueError", "", 0, "")]
                 /\ UNCHANGED dVars
            ELSE IF hosts = <<>>
            THEN /\ obs' = [NoObs EXCEPT !.call = "dispatch", !.how = "returned",
                                         !.args = args, !.known = Range(all_hosts)]
                 /\ UNCHANGED dVars
            ELSE /\ dArgs' = [dArgs EXCEPT ![d] = args]
                 /\ dKnown' = [dKnown EXCEPT ![d] = Range(all_hosts)]
                 /\ dPc' = [dPc EXCEPT ![d] = "created"]
                 /\ dHosts' = [dHosts EXCEPT ![d] = hosts]
                 /\ dOps' = [dOps EXCEPT ![d] =
                               [j \in 1..Len(Batch(hosts, 0)) |-> "created"]]
                 /\ UNCHANGED <<dI, dRaised, dQueryResults, dIssued, obs>>
    /\ UNCHANGED <<connVars, driverVars, taskVars, qVars, nVars, lifeVars>>
    /\ UNCHANGED statsVars

\* The first step of every query_host task of the batch, in list order:
\* execute_on_host up to "await future".  choice[j] says what the driver does
\* for member j: "ok", "add_raises" (add_execution_profile raises) or
\* "exec_raises" (session.execute_async raises).
RECURSIVE IssueFrom(_, _, _, _)
IssueFrom(st, batch, choice, j) ==
    IF j > Len(batch)
    THEN [st |-> st, ops |-> <<>>]
    ELSE LET step == RoutingStep(st, batch[j],
                                 IF choice[j] = "add_raises" THEN "raises" ELSE "ok")
             fails == \/ step.raised
                      \/ choice[j] = "exec_raises"
                      \/ "accepted" \notin HostAnswers(step.registered, batch[j])
             rest == IssueFrom(step, batch, choice, j + 1)
         IN  [st |-> rest.st,
              ops |-> <<IF fails THEN "failure" ELSE "waiting">> \o rest.ops]

BatchIssue(d) ==
    /\ Quiet
    /\ dPc[d] = "created"
    /\ LET batch == Batch(dHosts[d], dI[d]) IN
       \E choice \in [1..Len(batch) -> {"ok", "add_raises", "exec_raises"}] :
         LET r == IssueFrom(RoutingState, batch, choice, 1) IN
         /\ execution_profiles' = r.st.profiles
         /\ registered' = r.st.registered
         /\ regCount' = r.st.regCount
         /\ dOps' = [dOps EXCEPT ![d] = r.ops]
         /\ dRaised' = [dRaised EXCEPT ![d] =
                          @ \cup {batch[j] : j \in {k \in 1..Len(batch) : r.ops[k] = "failure"}}]
         /\ dIssued' = [dIssued EXCEPT ![d] = @ \o batch]
    /\ dPc' = [dPc EXCEPT ![d] = "inflight"]
    /\ UNCHANGED <<cluster, session, prepared_statements, is_connected,
                   clusterSt, sessionSt, orphans, taskVars, qVars, nVars,
                   dArgs, dKnown, dHosts, dI, dQueryResults, obs>>
    /\ UNCHANGED statsVars

\* The driver calls back for member j of the batch in flight and the
\* query_host task resumes (cassandra_connection.py:215-226).
OpCallback(d, j) ==
    /\ Quiet
    /\ dPc[d] = "inflight"
    /\ j \in DOMAIN dOps[d]
    /\ dOps[d][j] = "waiting"
    /\ \E kind \in {"success", "error"} :
        LET set == FutureSet("pending", kind) IN
        /\ dOps' = [dOps EXCEPT ![d][j] = IF set.fut = "result" THEN "rows" ELSE "failure"]
        /\ dRaised' = [dRaised EXCEPT ![d] =
                         IF set.fut = "result" THEN @ ELSE @ \cup {Batch(dHosts[d], dI[d])[j]}]
    /\ UNCHANGED <<connVars, driverVars, taskVars, qVars, nVars, lifeVars, obs,
                   dPc, dArgs, dKnown, dHosts, dI, dQueryResults, dIssued>>
    /\ UNCHANGED statsVars

\* a join that returns with the first member that finishes
SettledFirst(d) == \E j \in DOMAIN dOps[d] : dOps[d][j] \in {"rows", "failure"}

Settled(d) == \A j \in DOMAIN dOps[d] : dOps[d][j] \in {"rows", "failure"}

\* a dict that keeps the last result only
BuildResultsLast(query_results) ==
    IF query_results = <<>>
    THEN EmptyMap
    ELSE [a \in {query_results[Len(query_results)].address} |->
            query_results[Len(query_results)].result]

\* lines 159-160 / 342-343: the dict built from query_results
RECURSIVE BuildResults(_)
BuildResults(query_results) ==
    IF query_results = <<>>
    THEN EmptyMap
    ELSE LET n == Len(query_results)
             init == BuildResults(SubSeq(query_results, 1, n - 1))
             last == query_results[n]
         IN  [a \in DOMAIN init \cup {last.address} |->
                IF a = last.address THEN last.result ELSE init[a]]

\* asyncio.gather returns (lines 155-156 / 338-339): the batch has settled;
\* the loop goes on with the next batch or builds and returns the dict.
BatchJoin(d) ==
    /\ Quiet
    /\ dPc[d] = "inflight"
    /\ Settled(d)
    /\ LET batch == Batch(dHosts[d], dI[d])
           batch_results == [j \in DOMAIN batch |->
                               QueryHost(batch[j], dOps[d][j] = "failure")]
           escaped == \E j \in DOMAIN batch : batch_results[j].escapes
           query_results == dQueryResults[d] \o batch_results
           i == dI[d] + BatchSize(dHosts[d])
       IN  IF escaped
           THEN /\ obs' = DispatchObs(d, "raised", EmptyMap)
                /\ DispatchReset(d)
           ELSE IF i < Len(dHosts[d])
           THEN /\ dI' = [dI EXCEPT ![d] = i]
                /\ dQueryResults' = [dQueryResults EXCEPT ![d] = query_results]
                /\ dOps' = [dOps EXCEPT ![d] =
                              [j \in 1..Len(Batch(dHosts[d], i)) |-> "created"]]
                /\ dPc' = [dPc EXCEPT ![d] = "created"]
                /\ UNCHANGED <<dArgs, dKnown, dHosts, dRaised, dIssued, obs>>
           ELSE /\ obs' = DispatchObs(d, "returned", BuildResults(query_results))
                /\ DispatchReset(d)
    /\ UNCHANGED <<connVars, driverVars, taskVars, qVars, nVars, lifeVars>>
    /\ UNCHANGED statsVars

\* a gather whose children are shielded from the cancellation
CancelOpShielded(op) == op

\* what the cancellation of gather does to a member of the batch: a member
\* waiting at "await future" is cancelled with its future, whose callback is
\* still due
CancelOp(op) == IF op = "waiting" THEN "cancelled_armed" ELSE "cancelled"

\* The task awaiting the dispatch call is cancelled while gather waits:
\* gather cancels its children, whose futures are cancelled; nothing is
\* returned.  Operations whose callback is still due stay behind ("late").
DispatchCancel(d) ==
    /\ Quiet
    /\ dPc[d] \in {"created", "inflight"}
    /\ obs' = DispatchObs(d, "cancelled", EmptyMap)
    /\ IF \E j \in DOMAIN dOps[d] : dOps[d][j] = "waiting"
       THEN /\ dPc' = [dPc EXCEPT ![d] = "late"]
            /\ dOps' = [dOps EXCEPT ![d] = [j \in DOMAIN @ |-> CancelOp(@[j])]]
            /\ dQueryResults' = [dQueryResults EXCEPT ![d] = <<>>]
            /\ UNCHANGED <<dArgs, dKnown, dHosts, dI, dRaised, dIssued>>
       ELSE DispatchReset(d)
    /\ UNCHANGED <<connVars, driverVars, taskVars, qVars, nVars, lifeVars>>
    /\ UNCHANGED statsVars

\* A callback of the driver for an operation whose future was cancelled
LateOpCallback(d, j) ==
    /\ Quiet
    /\ dPc[d] = "late"
    /\ j \in DOMAIN dOps[d]
    /\ dOps[d][j] = "cancelled_armed"
    /\ \E kind \in {"success", "error"} :
        LET set == FutureSet("cancelled", kind) IN
        obs' = IF set.raised THEN LoopError("execute_on_host", <<"cancel", kind>>)
               ELSE obs
    /\ IF \E k \in DOMAIN dOps[d] : k # j /\ dOps[d][k] = "cancelled_armed"
       THEN /\ dOps' = [dOps EXCEPT ![d][j] = "cancelled"]
            /\ UNCHANGED <<dPc, dArgs, dKnown, dHosts, dI, dRaised, dQueryResults, dIssued>>
       ELSE DispatchReset(d)
    /\ UNCHANGED <<connVars, driverVars, taskVars, qVars, nVars, lifeVars>>
    /\ UNCHANGED statsVars

\* ------------------------------------------------------------------------
\* ThreadPoolStats  (ecm/thread_pool_stats.py)
\* ------------------------------------------------------------------------
\* AddRow, lines 156-183: a pool seen before (a row of another node) is
\* aggregated, a new one is created.  Of the summed fields only active is
\* kept here; blocked, completed and pending are summed in the same way.
AddRow(p, row) ==
    IF row.name \in DOMAIN p
    THEN [p EXCEPT ![row.name] =
            [active |-> @.active + row.active_tasks,
             active_limit |-> Max(@.active_limit, row.active_tasks_limit)]]
    ELSE [n \in DOMAIN p \cup {row.name} |->
            IF n = row.name
            THEN [active |-> row.active_tasks, active_limit |-> row.active_tasks_limit]
            ELSE p[n]]

\* lines 223-228 of load_stats_for_node: the row replaces the entry
StoreRow(p, row) ==
    [n \in DOMAIN p \cup {row.name} |->
        IF n = row.name
        THEN [active |-> row.active_tasks, active_limit |-> row.active_tasks_limit]
        ELSE p[n]]

\* self._pools.clear() followed by the loop over the rows
RECURSIVE ProcessRows(_, _)
ProcessRows(rows, aggregate) ==
    IF rows = <<>>
    THEN NoPools
    ELSE LET n == Len(rows)
             before == ProcessRows(SubSeq(rows, 1, n - 1), aggregate)
         IN  IF aggregate THEN AddRow(before, rows[n]) ELSE StoreRow(before, rows[n])

\* what session.execute and the iteration over its result do: all rows are
\* delivered, execute raises, or the iteration raises after some rows
Answers(rows) ==
    {[kind |-> "rows", seen |-> Len(rows)], [kind |-> "execute_raises", seen |-> 0]}
    \cup {[kind |-> "iteration_raises", seen |-> k] : k \in 0..(Len(rows) - 1)}

StatsObs(call, how, outcome) ==
    [NoObs EXCEPT !.call = call, !.how = how, !.outcome = outcome]

\* an except clause that leaves the flag as it was
LoadedAfterFailureKept == loaded

\* line 193: "self._loaded = True  # Prevent repeated failures"
LoadedAfterFailure == TRUE

\* lines 143-144: "if self._loaded: return"
AlreadyLoaded(is_loaded) == is_loaded

\* load_stats(), lines 137-194, entered with self._loaded = is_loaded.  It
\* contains no await (session.execute is the blocking call of the driver),
\* so it is one step of the event loop.
LoadStatsBody(call, is_loaded) ==
    IF AlreadyLoaded(is_loaded)
    THEN /\ obs' = StatsObs(call, "no_query", Returned("loaded"))
         /\ UNCHANGED <<pools, loaded>>
    ELSE \E rows \in ResultSets : \E answer \in Answers(rows) :
           /\ pools' = IF answer.kind = "execute_raises"
                       THEN pools
                       ELSE ProcessRows(SubSeq(rows, 1, answer.seen), TRUE)
           /\ loaded' = IF answer.kind = "rows" THEN TRUE ELSE LoadedAfterFailure
           /\ obs' = StatsObs(call, "query",
                              IF answer.kind = "rows"
                              THEN Returned("loaded")
                              ELSE Outcome("Exception", "", 0, answer.kind))

ConnectionUnchanged ==
    UNCHANGED <<connVars, driverVars, taskVars, qVars, nVars, dVars, lifeVars>>

LoadStats ==
    /\ Quiet
    /\ LoadStatsBody("load_stats", loaded)
    /\ ConnectionUnchanged

\* refresh(), lines 256-259: the flag is reset and load_stats() runs in the
\* same step
Refresh ==
    /\ Quiet
    /\ LoadStatsBody("refresh", FALSE)
    /\ ConnectionUnchanged

\* load_stats_for_node(), lines 196-234: always queries; the flag is set
\* only when the rows were processed
LoadStatsForNode ==
    /\ Quiet
    /\ \E rows \in ResultSets : \E answer \in Answers(rows) :
           /\ pools' = IF answer.kind = "execute_raises"
                       THEN pools
                       ELSE ProcessRows(SubSeq(rows, 1, answer.seen), FALSE)
           /\ loaded' = IF answer.kind = "rows" THEN TRUE ELSE loaded
           /\ obs' = StatsObs("load_stats_for_node", "query",
                              IF answer.kind = "rows"
                              THEN Returned("loaded")
                              ELSE Outcome("Exception", "", 0, answer.kind))
    /\ ConnectionUnchanged

\* ------------------------------------------------------------------------
\* Specifications
\* ------------------------------------------------------------------------
\* connect() and disconnect() called directly
Direct(env) ==
    \/ \E t \in SoloTask : Connect(t, env)
    \/ \E t \in SoloTask : ClusterCreated(t, env)
    \/ \E t \in SoloTask : SessionOpened(t, env)
    \/ \E t \in SoloTask : PrepareStatement(t, env)
    \/ Disconnect(env)

Lifecycle(env) ==
    \/ Direct(env)
    \/ \E t \in SoloTask : ScopeExit(t, env)

Bridge ==
    \/ ExecAsyncCall
    \/ ExecAsyncCallback
    \/ ExecAsyncTimeout
    \/ ExecAsyncCancel

NodeExec ==
    \/ ExecOnNodeCall
    \/ ExecOnNodeCallback
    \/ ExecOnNodeCancel

\* dispatch calls of the tasks D that run to their end
DispatchRunBy(D, argSet) ==
    \/ \E d \in D : DispatchCall(d, argSet)
    \/ \E d \in D : BatchIssue(d)
    \/ \E d \in D, j \in 1..MAX_CONCURRENT_QUERIES : OpCallback(d, j)
    \/ \E d \in D : BatchJoin(d)

\* a dispatch call that runs to its end
DispatchRun(argSet) == DispatchRunBy(SoloDispatcher, argSet)

Dispatch(argSet) ==
    \/ DispatchRun(argSet)
    \/ \E d \in SoloDispatcher : DispatchCancel(d)
    \/ \E d \in SoloDispatcher, j \in 1..MAX_CONCURRENT_QUERIES : LateOpCallback(d, j)

\* the connection, in any environment, and one direct execute_async caller
NextConn == Forget \/ Lifecycle(AnyEnv) \/ Bridge
SpecConn == Init /\ [][NextConn]_vars

\* the connection with a driver whose shutdown may raise, and one per-node
\* execution
NextNode == Forget \/ Direct(ThrowingEnv) \/ NodeExec
SpecNode == Init /\ [][NextNode]_vars

\* the connection and a dispatch call with any arguments
NextDispatch == Forget \/ Direct(CalmEnv) \/ Dispatch(DispatchArgs)
SpecDispatch == Init /\ [][NextDispatch]_vars

\* the connection, per-node executions and dispatches over all nodes
NextRoute ==
    \/ Forget
    \/ Direct(CalmEnv)
    \/ ExecOnNodeCall
    \/ ExecOnNodeCallback
    \/ DispatchRun(AllNodesArgs)
SpecRoute == Init /\ [][NextRoute]_vars

\* one task that uses the connection through "async with" and runs queries:
\* nothing runs disconnect() while its connect() is running
NextScoped ==
    \/ Forget
    \/ \E t \in SoloTask : Connect(t, ScopedEnv)
    \/ \E t \in SoloTask : ClusterCreated(t, ScopedEnv)
    \/ \E t \in SoloTask : SessionOpened(t, ScopedEnv)
    \/ \E t \in SoloTask : PrepareStatement(t, ScopedEnv)
    \/ \E t \in SoloTask : ScopeExit(t, ScopedEnv)
    \/ Bridge
SpecScoped == Init /\ [][NextScoped]_vars

\* two tasks that call connect() and disconnect() on one connection, with a
\* driver whose calls succeed
NextOverlap ==
    \/ Forget
    \/ \E t \in ConnTasks : Connect(t, CalmEnv)
    \/ \E t \in ConnTasks : ClusterCreated(t, CalmEnv)
    \/ \E t \in ConnTasks : SessionOpened(t, CalmEnv)
    \/ \E t \in ConnTasks : PrepareStatement(t, CalmEnv)
    \/ Disconnect(CalmEnv)
SpecOverlap == Init /\ [][NextOverlap]_vars

\* every operation of the connection with a driver whose connection calls
\* succeed: connect() and disconnect(), execute_async, execute_on_node, and
\* a dispatch to one target
SingleTargetArgs == {Args("table", "system", TRUE, {Addr_1_3})}
NextFrame ==
    \/ Forget \/ Direct(CalmEnv) \/ Bridge
    \/ ExecOnNodeCall \/ ExecOnNodeCallback
    \/ DispatchRun(SingleTargetArgs)
SpecFrame == Init /\ [][NextFrame]_vars

\* a ThreadPoolStats object in use
NextStats == Forget \/ LoadStats \/ Refresh \/ LoadStatsForNode
SpecStats == Init /\ [][NextStats]_vars

\* a connection that is connected once and dispatch calls over all nodes
\* that run concurrently
NextConcurrent ==
    \/ Forget
    \/ \E t \in SoloTask : Connect(t, CalmEnv)
    \/ \E t \in SoloTask : ClusterCreated(t, CalmEnv)
    \/ \E t \in SoloTask : SessionOpened(t, CalmEnv)
    \/ \E t \in SoloTask : PrepareStatement(t, CalmEnv)
    \/ DispatchRunBy(Dispatchers, AllNodesArgs)
SpecConcurrent == Init /\ [][NextConcurrent]_vars

\* A dispatch over all nodes under the scheduling of the event loop: a task
\* that is ready to run does run, whatever the other tasks do, and what the
\* caller can read it reads.  The driver owes no callback, so OpCallback is
\* under no fairness.
NextFair ==
    \/ Forget
    \/ \E t \in SoloTask : Connect(t, CalmEnv)
    \/ \E t \in SoloTask : ClusterCreated(t, CalmEnv)
    \/ \E t \in SoloTask : SessionOpened(t, CalmEnv)
    \/ \E t \in SoloTask : PrepareStatement(t, CalmEnv)
    \/ DispatchRun(AllNodesArgs)
FairDispatch ==
    /\ Init /\ [][NextFair]_vars
    /\ WF_vars(Forget)
    /\ \A t \in ConnTasks :
         /\ SF_vars(ClusterCreated(t, CalmEnv))
         /\ SF_vars(SessionOpened(t, CalmEnv))
         /\ SF_vars(PrepareStatement(t, CalmEnv))
    /\ \A d \in Dispatchers : SF_vars(BatchIssue(d)) /\ SF_vars(BatchJoin(d))

Next ==
    \/ Forget \/ Lifecycle(AnyEnv) \/ Bridge \/ NodeExec \/ Dispatch(DispatchArgs)
    \/ LoadStats \/ Refresh \/ LoadStatsForNode
Spec == Init /\ [][Next]_vars

\* ------------------------------------------------------------------------
\* Properties
\* ------------------------------------------------------------------------
Released == clusterSt # "open" /\ sessionSt # "open" /\ orphans = 0
CachesEmpty == execution_profiles = {} /\ prepared_statements = {}

\* C6: when the session or cluster shutdown call raises inside disconnect()
\* on a Connected connection, disconnect() returns without raising, the
\* connection is Disconnected and the route-key cache and the
\* prepared-statement cache are empty.
C6_DisconnectSurvivesShutdownError ==
    (obs.call \in {"disconnect", "aexit"} /\ obs.err # "none")
        => /\ obs.outcome = Returned("disconnected")
           /\ ~is_connected
           /\ CachesEmpty

\* a disconnect() whose session shutdown raised although both caches held
\* entries has just ended
C6_Witness ==
    /\ obs.call = "disconnect" /\ obs.err = "session"
    /\ obs.hadProfiles # {} /\ obs.hadStatements # {}

\* C7: when "async with" ends, by a normal exit of the body, by an exception
\* in the body, or by an error of connect() after the cluster handle was
\* created, every handle that was created is shut down and the connection is
\* Disconnected with empty caches (the shutdown calls themselves succeed).
C7_ScopedRelease ==
    (\/ obs.call = "aexit" /\ obs.err = "none"
     \/ obs.call = "aenter" /\ obs.outcome.type # "return")
        => Released /\ ~is_connected /\ CachesEmpty

\* C8: the caller of a bridged request is resumed once, with the outcome of
\* the first event, and no later event raises anywhere: no callback of the
\* event loop ends in an error.
C8_ExactlyOnce ==
    /\ obs.call = "execute_async" => obs.resumes = 1
    /\ obs.call # "loop_callback"

\* how an execute_async call o ends, by the first event of its request
C9_Ends(o) ==
    LET first == IF o.events = <<>> THEN "refused" ELSE o.events[1] IN
    /\ first = "success" =>
         o.outcome = Outcome("return", "result", 0, "")
    /\ first = "timeout" =>
         o.outcome = Outcome("CassandraQueryError", "Query timeout after {} seconds", 10, "")
    /\ first \in {"error", "refused"} =>
         o.outcome = Outcome("CassandraQueryError", "Query execution failed: {}", 0,
                             "DriverException")

\* C9: an execute_async call on a Connected connection that is not cancelled
\* ends by returning the driver's result (success callback), by
\* CassandraQueryError 'Query timeout after QUERY_TIMEOUT seconds' (no
\* callback within the bound) or by CassandraQueryError 'Query execution
\* failed: cause' (error callback, or the driver refusing the request); the
\* step that ends it leaves the connection flag and both caches as they were.
C9_ExecuteAsyncOutcomes ==
    [][(/\ obs'.call = "execute_async"
        /\ obs'.events # <<>> \/ is_connected
        /\ obs'.outcome.type # "CancelledError")
          => /\ C9_Ends(obs')
             /\ UNCHANGED <<is_connected, execution_profiles, prepared_statements>>]_vars

\* an execute_async call has just ended by the timeout on a connection that
\* is Connected
C9_Witness ==
    /\ obs.call = "execute_async" /\ obs.events = <<"timeout">>
    /\ is_connected /\ prepared_statements # {}

\* C10: when a connect() call fails, by a timeout or by another error of
\* cluster creation or session opening, the caller gets
\* CassandraConnectionError (with the timeout or the cause in its message)
\* and the connection is Disconnected: execute_async reports not-connected,
\* get_all_hosts returns the empty list, a later connect() starts the setup.
C10_FailedConnect ==
    (obs.call \in {"connect", "aenter"} /\ obs.outcome.type # "return")
        => /\ obs.outcome =
                IF obs.err = "TimeoutError"
                THEN Outcome("CassandraConnectionError",
                             "Connection timeout after {} seconds", 30, "")
                ELSE Outcome("CassandraConnectionError", "Failed to connect: {}", 0,
                             obs.err)
           /\ ~is_connected
           /\ GetAllHosts(Addrs) = <<>>
           /\ \A t \in ConnTasks : connPc[t] = "idle"

\* a connect() call has just failed by a timeout after the cluster handle
\* was created
C10_Witness ==
    /\ obs.call = "connect" /\ obs.err = "TimeoutError"
    /\ clusterSt = "open" /\ sessionSt = "none"

\* C1: a dispatch call over a non-empty target set that is not cancelled
\* returns without raising, whatever subset of its per-host queries fails
\* (routing failure, the driver refusing the request, error callback); the
\* result has one entry per targeted host, a Failure exactly for the hosts
\* whose query failed and rows for the others, so one failing host gives
\* exactly one Failure entry.
C1_FailureIsolation ==
    (obs.call = "dispatch" /\ obs.hosts # <<>> /\ obs.how # "cancelled")
        => /\ obs.how = "returned"
           /\ DOMAIN obs.result = Range(obs.hosts)
           /\ \A h \in Range(obs.hosts) :
                obs.result[h] = IF h \in obs.raised THEN "Failure" ELSE "Rows"
           /\ Cardinality({h \in DOMAIN obs.result : obs.result[h] = "Failure"})
                = Cardinality(obs.raised)

\* a dispatch over three hosts has just returned with exactly one failed host
C1_Witness ==
    /\ obs.call = "dispatch" /\ obs.how = "returned"
    /\ Len(obs.hosts) = 3 /\ Cardinality(obs.raised) = 1

\* C2: a dispatch whose batch is in flight eventually returns, even when a
\* targeted host's driver request never calls back: the per-host operation is
\* resolved by its own timeout.
C2_DispatchReturns ==
    \A d \in Dispatchers : (dPc[d] = "inflight") ~> (dPc[d] = "idle")

\* C3: query_system_table_on_nodes called with a target list T (the empty
\* list included) returns a map whose keys are exactly the addresses of T in
\* the membership snapshot H read at the start of the call.
C3_KeysAreTargetsInSnapshot ==
    (obs.call = "dispatch" /\ obs.args.op = "table" /\ obs.args.given
                           /\ obs.how = "returned")
        => DOMAIN obs.result = obs.args.node_addresses \cap obs.known

\* the per-host operations of d that were issued and have not settled
InFlight(d) == {j \in DOMAIN dOps[d] : dOps[d][j] \in {"waiting", "cancelled_armed"}}

\* C4: at every instant the number of per-host operations of a dispatch call
\* that were issued and have not settled is at most MAX_CONCURRENT_QUERIES.
C4_InFlightBound ==
    \A d \in Dispatchers : Cardinality(InFlight(d)) <= MAX_CONCURRENT_QUERIES

\* a dispatch over more hosts than the limit has a full batch in flight
C4_Witness ==
    \E d \in Dispatchers :
        /\ Len(dHosts[d]) > MAX_CONCURRENT_QUERIES
        /\ Cardinality(InFlight(d)) = MAX_CONCURRENT_QUERIES

\* a step in which execute_on_host(a) passes its routing lines on a
\* Connected connection, called by execute_on_node or by a dispatch
UsesAddress(a) ==
    /\ Quiet /\ is_connected
    /\ \/ /\ nPc = "idle"
          /\ \/ nPc' = "waiting" /\ nAddr' = a
             \/ /\ obs'.call = "execute_on_node" /\ obs'.address = a
                /\ obs'.how = "execute"
       \/ \E d \in Dispatchers :
            /\ dPc[d] = "created" /\ dPc'[d] = "inflight"
            /\ \E j \in DOMAIN dOps'[d] :
                 Batch(dHosts[d], dI[d])[j] = a /\ dOps'[d][j] = "waiting"

\* C5: within one connection lifetime add_execution_profile is performed at
\* most once per address: after any use of address a the key
\* host_<a with '.' and ':' replaced by '_'> is recorded and names the
\* single-host, consistency-ONE route of a on the cluster in use, registered
\* by the first use of a and found by every later one.
C5_RouteOncePerAddress ==
    [][\A a \in Addrs :
         UsesAddress(a) =>
            /\ ProfileName(a) \in execution_profiles'
            /\ registered'[ProfileName(a)] = HostProfile(a)
            /\ regCount'[a] <= 1]_vars

\* the count alone: no address is registered twice in one connection lifetime
C5_AtMostOnce == \A a \in Addrs : regCount[a] <= 1

\* a step in which task t calls connect(), directly or through __aenter__
ConnectCalled(t) ==
    /\ Quiet /\ connPc[t] = "idle"
    /\ connPc'[t] # "idle" \/ obs'.call \in {"connect", "aenter"}
    /\ \A u \in ConnTasks \ {t} : connPc'[u] = connPc[u]

\* C11: connect() on a Connected connection is a no-op: it returns at once,
\* creates no handle, opens no session, prepares no statement and leaves the
\* flag and the caches as they are, so consecutive connect() calls perform
\* the network setup once.
C11_ConnectIdempotent ==
    [][\A t \in ConnTasks :
         (ConnectCalled(t) /\ is_connected)
            => /\ obs'.outcome = Returned("already_connected")
               /\ connPc'[t] \in {"idle", "body"}
               /\ UNCHANGED <<connVars, driverVars>>]_vars

\* a connect() on a Connected connection with prepared statements has just
\* returned
C11_Witness ==
    /\ obs.call = "connect" /\ obs.outcome = Returned("already_connected")
    /\ is_connected /\ clusterSt = "open" /\ sessionSt = "open"
    /\ prepared_statements # {}

\* a step in which disconnect() runs, called directly or by __aexit__
DisconnectCalled == Quiet /\ obs'.call \in {"disconnect", "aexit"}

\* C12: disconnect() on a Disconnected connection is a no-op: it returns
\* without raising, invokes no shutdown call and changes nothing; every
\* disconnect() leaves the connection Disconnected, so of consecutive
\* disconnect() calls only the first can invoke the shutdown.
C12_DisconnectIdempotent ==
    [][DisconnectCalled =>
         /\ ~is_connected'
         /\ ~is_connected =>
              /\ obs'.outcome = Returned("skipped")
              /\ obs'.shutdown = {}
              /\ UNCHANGED <<connVars, driverVars>>]_vars

\* a disconnect() on a connection that was connected and disconnected before
\* has just returned
C12_Witness ==
    /\ obs.call = "disconnect" /\ obs.outcome = Returned("skipped")
    /\ clusterSt = "closed" /\ sessionSt = "closed"

\* a step in which execute_async is called
ExecAsyncCalled ==
    /\ Quiet /\ qPc = "idle"
    /\ qPc' # "idle" \/ obs'.call = "execute_async"

\* C13: execute_async called while the connection is not Connected (before
\* connect(), after disconnect(), after a failed connect()) raises
\* CassandraQueryError 'Not connected to Cassandra' and hands no request to
\* the driver session.
C13_NotConnected ==
    [][(ExecAsyncCalled /\ ~is_connected)
         => /\ obs'.call = "execute_async"
            /\ obs'.outcome =
                 Outcome("CassandraQueryError", "Not connected to Cassandra", 0, "")
            /\ obs'.events = <<>>
            /\ UNCHANGED <<qVars, connVars, driverVars>>]_vars

\* execute_async has just been refused on a connection that was connected
\* and disconnected before
C13_Witness ==
    /\ obs.call = "execute_async" /\ obs.outcome.text = "Not connected to Cassandra"
    /\ ~is_connected /\ session # None /\ sessionSt = "closed"

\* C14: the batches of a dispatch call run strictly in sequence: the batch
\* index moves only from one batch to the next, and only when every operation
\* of the batch in flight has settled; the operations of a batch are issued
\* only when all earlier targets have their outcome; the call returns only
\* after the last batch has settled, with every target issued.
C14_BatchesInSequence ==
    [][\A d \in Dispatchers :
         /\ dI'[d] # dI[d] =>
              \/ dI'[d] = 0 /\ dPc'[d] = "idle"
              \/ /\ dI'[d] = dI[d] + BatchSize(dHosts[d])
                 /\ dPc[d] = "inflight" /\ dPc'[d] = "created"
                 /\ \A j \in DOMAIN dOps[d] : dOps[d][j] \in {"rows", "failure"}
         /\ (dIssued'[d] # dIssued[d] /\ dIssued'[d] # <<>>) =>
              /\ dIssued'[d] = dIssued[d] \o Batch(dHosts[d], dI[d])
              /\ Len(dIssued[d]) = dI[d]
              /\ Len(dQueryResults[d]) = dI[d]
         /\ (dPc[d] # "idle" /\ obs'.call = "dispatch" /\ obs'.how = "returned") =>
              /\ \A j \in DOMAIN dOps[d] : dOps[d][j] \in {"rows", "failure"}
              /\ dI[d] + Len(dOps[d]) = Len(dHosts[d])
              /\ obs'.issued = obs'.hosts]_vars

\* the second batch of a dispatch over three hosts is in flight
C14_Witness ==
    \E d \in Dispatchers :
        /\ dPc[d] = "inflight" /\ Len(dHosts[d]) = 3 /\ dI[d] = 2
        /\ Len(dQueryResults[d]) = 2 /\ dOps[d] = <<"waiting">>

\* C15: when a dispatch call is cancelled while a batch is in flight, no wait
\* on an operation of the batch remains, nothing is returned to the caller
\* (the outcomes already collected are dropped), no operation of a later
\* batch is issued afterwards, and a driver callback that comes after the
\* cancellation is not applied: it adds no outcome and changes no state of
\* the connection.
C15_CancelledDispatch ==
    [][\A d \in Dispatchers :
         /\ (dPc[d] \in {"created", "inflight"} /\ obs'.how = "cancelled") =>
              /\ obs'.call = "dispatch" /\ obs'.result = EmptyMap
              /\ dPc'[d] \in {"late", "idle"}
              /\ dQueryResults'[d] = <<>>
              /\ \A j \in DOMAIN dOps'[d] : dOps'[d][j] # "waiting"
         /\ dPc[d] = "late" =>
              /\ dIssued'[d] \in {dIssued[d], <<>>}
              /\ dQueryResults'[d] = <<>>
              /\ dPc'[d] \in {"late", "idle"}
              /\ obs'.call # "dispatch"
              /\ dOps'[d] # dOps[d] => UNCHANGED <<connVars, driverVars, lifeVars>>]_vars

\* a dispatch over three hosts was cancelled in its first batch with one
\* outcome collected and one callback still due
C15_Witness ==
    \E d \in Dispatchers :
        /\ dPc[d] = "late" /\ Len(dHosts[d]) = 3
        /\ dOps[d] = <<"cancelled", "cancelled_armed">>
        /\ dIssued[d] = SubSeq(dHosts[d], 1, 2)

\* a dispatch call has just returned its result map
DispatchReturned == obs.call = "dispatch" /\ obs.how = "returned"

\* C16: with dispatch calls running concurrently on one connection there is
\* no torn state: no key is recorded without a registered route; the map a
\* call returns has exactly its own targets as keys, each with the outcome of
\* that call's own query to that target; and every target that was queried
\* has its key recorded and its own single-host route registered.
C16_NoTornState ==
    /\ is_connected => \A p \in execution_profiles : registered[p] # NoProfile
    /\ DispatchReturned =>
         /\ DOMAIN obs.result = Range(obs.hosts)
         /\ \A a \in DOMAIN obs.result :
              /\ obs.result[a] = "Failure" <=> a \in obs.raised
              /\ obs.result[a] = "Rows" =>
                   /\ ProfileName(a) \in execution_profiles
                   /\ registered[ProfileName(a)] = HostProfile(a)

\* what the interleaving alone guarantees: the key of every queried target is
\* recorded and names a registered route, and every map has its own targets
C16_KeyRecordedAndRegistered ==
    /\ is_connected => \A p \in execution_profiles : registered[p] # NoProfile
    /\ DispatchReturned =>
         /\ DOMAIN obs.result = Range(obs.hosts)
         /\ \A a \in DOMAIN obs.result :
              /\ obs.result[a] = "Failure" <=> a \in obs.raised
              /\ obs.result[a] = "Rows" =>
                   /\ ProfileName(a) \in execution_profiles
                   /\ registered[ProfileName(a)] # NoProfile

\* C17: a dispatch called without a target list targets every host of the
\* membership snapshot it reads at its start, each once, whatever happens to
\* the connection while it runs, and the map it returns has exactly one entry,
\* rows or a failure, for each host of that snapshot.
C17_AllKnownHostsReported ==
    /\ \A d \in Dispatchers :
         (dPc[d] # "idle" /\ ~dArgs[d].given) =>
            /\ Range(dHosts[d]) = dKnown[d]
            /\ Len(dHosts[d]) = Cardinality(dKnown[d])
    /\ (DispatchReturned /\ ~obs.args.given) =>
         /\ Range(obs.hosts) = obs.known
         /\ DOMAIN obs.result = obs.known
         /\ \A a \in obs.known : obs.result[a] \in {"Rows", "Failure"}

\* a dispatch over a snapshot of three hosts returns after the connection was
\* closed under it, with rows for one host and a failure for another
C17_Witness ==
    /\ DispatchReturned /\ ~obs.args.given
    /\ obs.known = Addrs
    /\ ~is_connected
    /\ \E a, b \in obs.known : obs.result[a] = "Rows" /\ obs.result[b] = "Failure"

\* a step in which task d calls a dispatch operation: the call returns or
\* raises at once, or goes on to its first batch
DispatchCalled(d) ==
    /\ Quiet /\ dPc[d] = "idle"
    /\ \/ dPc'[d] = "created"
       \/ obs'.call = "dispatch" /\ UNCHANGED dVars

\* C18: a dispatch call whose membership snapshot is empty returns the empty
\* map at once, creates no route and issues no query: a call that passes its
\* argument validation while the connection is not Connected reads an empty
\* snapshot and ends so, every call that reads an empty snapshot ends so, and
\* only a call with a non-empty snapshot goes on to a batch.
C18_EmptySnapshot ==
    [][\A d \in Dispatchers :
         DispatchCalled(d) =>
            /\ (~is_connected \/ cluster = None) =>
                 /\ dPc'[d] = "idle" /\ obs'.call = "dispatch"
                 /\ obs'.how = "raised" =>
                      obs'.args.op = "table" /\ obs'.args.keyspace \notin ValidKeyspaces
                 /\ obs'.how # "raised" =>
                      obs'.how = "returned" /\ obs'.known = {}
            /\ (obs'.call = "dispatch" /\ obs'.how = "returned" /\ obs'.known = {}) =>
                 /\ obs'.result = EmptyMap
                 /\ obs'.hosts = <<>> /\ obs'.issued = <<>>
                 /\ UNCHANGED <<connVars, driverVars, lifeVars, dVars>>
            /\ dPc'[d] = "created" => dKnown'[d] # {}]_vars

\* a dispatch called between the creation of the cluster handle and the end
\* of connect's session step has returned the empty map
C18_Witness ==
    /\ DispatchReturned /\ obs.known = {} /\ obs.result = EmptyMap
    /\ ~is_connected /\ cluster # None

\* connect(), called directly or by __aenter__, has just returned from a
\* connection attempt of its own
ConnectCompleted ==
    obs.call \in {"connect", "aenter"} /\ obs.outcome = Returned("connected")

\* C19: whichever of the three named statements fail to prepare, connect()
\* goes through all of them and returns normally with the connection
\* Connected, and the prepared-statement cache holds exactly the statements
\* whose preparation succeeded; while the statements are being prepared the
\* cache holds exactly those prepared so far.
C19_PrepareFailuresSkipped ==
    /\ \A t \in ConnTasks :
         connPc[t] = "prepare" =>
            /\ is_connected
            /\ prepared_statements = connPrepared[t]
            /\ connPrepared[t] \subseteq {StatementNames[i] : i \in 1..(connIdx[t] - 1)}
    /\ ConnectCompleted =>
         /\ is_connected /\ cluster # None /\ session # None
         /\ prepared_statements = obs.prepared
         /\ obs.prepared \subseteq Range(StatementNames)

\* connect() has returned after the first and the last statement failed to
\* prepare
C19_Witness ==
    /\ ConnectCompleted /\ is_connected
    /\ obs.prepared = {"select_keyspaces"}
    /\ prepared_statements = {"select_keyspaces"}

\* the arguments of the dispatch call made in a step DispatchCalled(d)
CallArgs(d) == IF dPc'[d] = "created" THEN dArgs'[d] ELSE obs'.args

\* C20: query_system_table_on_nodes called with a keyspace other than
\* 'system' and 'system_views' raises ValueError at once: it reads no
\* membership, creates no route, issues no query, starts no batch, and leaves
\* the connection, the driver handles and every cache as they were.
C20_InvalidKeyspace ==
    [][\A d \in Dispatchers :
         (/\ DispatchCalled(d)
          /\ CallArgs(d).op = "table"
          /\ CallArgs(d).keyspace \notin {"system", "system_views"}) =>
            /\ obs'.call = "dispatch" /\ obs'.how = "raised"
            /\ obs'.outcome.type = "ValueError"
            /\ obs'.known = {} /\ obs'.hosts = <<>> /\ obs'.issued = <<>>
            /\ obs'.result = EmptyMap
            /\ UNCHANGED <<connVars, driverVars, lifeVars, taskVars, dVars>>]_vars

\* the call was refused on a Connected connection that has routes, with a
\* target list
C20_Witness ==
    /\ obs.call = "dispatch" /\ obs.how = "raised"
    /\ obs.outcome.type = "ValueError"
    /\ obs.args.keyspace = "ks1" /\ obs.args.given
    /\ is_connected /\ execution_profiles # {}

\* C21: "async with connection" calls connect() once on entry; when connect()
\* raises, the caller gets CassandraConnectionError, the body is not entered
\* and no disconnect() runs; the body is entered only by a connect() that
\* returned, and it is left only through __aexit__, which runs disconnect()
\* once, whether the body ended normally or by an exception.
C21_AsyncWith ==
    [][/\ (Quiet /\ obs'.call = "aenter") =>
            \E t \in ConnTasks :
              /\ connPc[t] # "body"
              /\ \A u \in ConnTasks \ {t} : connPc'[u] = connPc[u]
              /\ IF obs'.outcome.type = "return"
                 THEN connPc'[t] = "body"
                 ELSE /\ obs'.outcome.type = "CassandraConnectionError"
                      /\ connPc'[t] = "idle"
                      /\ obs'.shutdown = {}
                      /\ UNCHANGED <<clusterSt, sessionSt, is_connected>>
       /\ (Quiet /\ obs'.call = "aexit") =>
            \E t \in ConnTasks : connPc[t] = "body" /\ connPc'[t] = "idle"
       /\ \A t \in ConnTasks :
            /\ connPc'[t] = "mk_cluster" => connPc[t] \in {"idle", "mk_cluster"}
            /\ (connPc'[t] = "body" /\ connPc[t] # "body") =>
                 obs'.call = "aenter" /\ obs'.outcome.type = "return"
            /\ (connPc[t] = "body" /\ connPc'[t] # "body") =>
                 /\ obs'.call = "aexit" /\ obs'.how \in {"normal", "exception"}
                 /\ connPc'[t] = "idle"
                 /\ ~is_connected'
                 /\ obs'.outcome = IF is_connected THEN Returned("disconnected")
                                                   ELSE Returned("skipped")]_vars

\* the body of "async with" ended by an exception and __aexit__ has
\* disconnected the connection
C21_Witness ==
    /\ obs.call = "aexit" /\ obs.how = "exception"
    /\ obs.outcome = Returned("disconnected")
    /\ obs.shutdown = {"session", "cluster"}
    /\ \A t \in ConnTasks : connPc[t] = "idle"

\* C22: load_stats() queries the cluster exactly when the statistics are not
\* loaded; after every load_stats() attempt, whether it returned or re-raised
\* the failure of the query, is_loaded() is true, so a further load_stats()
\* issues no query and changes nothing; refresh() always queries; and
\* is_loaded(), once true, is never seen false again.
C22_LoadOnce ==
    [][/\ (Quiet /\ obs'.call = "load_stats") =>
            /\ obs'.how = (IF loaded THEN "no_query" ELSE "query")
            /\ loaded'
            /\ loaded => (pools' = pools /\ obs'.outcome.type = "return")
       /\ (Quiet /\ obs'.call = "refresh") =>
            /\ obs'.how = "query"
            /\ loaded'
       /\ (Quiet /\ obs'.call \in {"load_stats", "refresh"}) =>
            obs'.outcome.type \in {"return", "Exception"}
       /\ loaded => loaded']_vars

\* a load_stats() attempt has failed while the rows were read: the failure
\* was raised to the caller and the statistics count as loaded
C22_Witness ==
    /\ obs.call = "load_stats" /\ obs.how = "query"
    /\ obs.outcome.type = "Exception" /\ obs.outcome.cause = "iteration_raises"
    /\ loaded /\ pools # NoPools

\* C23: in every reachable state a Disconnected connection has an empty
\* route-key cache and an empty prepared-statement cache.
C23_DisconnectedCachesEmpty == ~is_connected => CachesEmpty

\* the part of it that disconnect() itself ensures: when a disconnect() call
\* on a Connected connection ends, both caches are empty
C23_EmptyAfterDisconnect ==
    (obs.call \in {"disconnect", "aexit"} /\ obs.outcome = Returned("disconnected"))
        => (~is_connected /\ CachesEmpty)

\* C24: in every reachable state every key recorded in the route cache names
\* a route that is registered on the cluster handle self.cluster refers to.
C24_RecordedKeysRegistered ==
    \A p \in execution_profiles : registered[p] # NoProfile

\* C25: with overlapping connect() calls (and a driver whose calls succeed)
\* the setup is performed once: no cluster or session handle is created and
\* then left open with nothing referring to it.
C25_NoOrphanedHandle == orphans = 0

\* C27: in no reachable state is the connection Connected, so that
\* execute_async passes its connected check, while a connect() is still
\* preparing the named statements.
C27_ConnectedImpliesPrepared ==
    is_connected => \A t \in ConnTasks : connPc[t] # "prepare"

\* C26: a disconnect() on a Connected connection calls the shutdown of the
\* session handle and the shutdown of the cluster handle, also when the
\* session shutdown raises.
C26_BothShutdownsAttempted ==
    (obs.call \in {"disconnect", "aexit"} /\ obs.outcome = Returned("disconnected"))
        => obs.shutdown = {"session", "cluster"}

\* what holds of it: both shutdowns are attempted unless the first one raised
C26_BothUnlessSessionRaised ==
    (/\ obs.call \in {"disconnect", "aexit"}
     /\ obs.outcome = Returned("disconnected")
     /\ obs.err # "session")
        => obs.shutdown = {"session", "cluster"}

\* ceil(n / m) for m > 0
Ceil(n, m) == (n + m - 1) \div m

\* C28: with N >= 1 targets and b = min(MAX_CONCURRENT_QUERIES, N), the batch
\* issued at loop offset i is the slice of the target list from i + 1 to
\* min(i + b, N), the offsets are 0, b, 2b, ..., so the operations issued so
\* far are always a prefix of the target list, each target once and in list
\* order; a call that returns has issued every target once, in
\* ceil(N / b) batches of at most b members.
C28_BatchPartition ==
    [][\A d \in Dispatchers :
         LET N == Len(dHosts[d])
             b == IF N <= MAX_CONCURRENT_QUERIES THEN N ELSE MAX_CONCURRENT_QUERIES
         IN  /\ (dPc[d] = "created" /\ dPc'[d] = "inflight") =>
                  /\ N >= 1 /\ dI[d] % b = 0 /\ dI[d] < N
                  /\ dIssued[d] = SubSeq(dHosts[d], 1, dI[d])
                  /\ dIssued'[d] = SubSeq(dHosts[d], 1, IF dI[d] + b <= N THEN dI[d] + b ELSE N)
                  /\ Len(dOps'[d]) = Len(dIssued'[d]) - Len(dIssued[d])
                  /\ Len(dOps'[d]) <= b
             /\ (dPc[d] = "inflight" /\ dPc'[d] = "idle" /\ obs'.how = "returned") =>
                  /\ obs'.issued = dHosts[d]
                  /\ dI[d] = (Ceil(N, b) - 1) * b
                  /\ Cardinality(Range(obs'.issued)) = N]_vars

\* a dispatch over the three hosts, in list order, has returned after its
\* batches of two and of one
C28_Witness ==
    /\ DispatchReturned
    /\ obs.hosts = HostOrder /\ obs.issued = HostOrder
    /\ obs.raised = {}

\* a step in which the driver accepts a query addressed to a, from
\* execute_on_node or from a batch of a dispatch
QueryAccepted(a) ==
    \/ nPc = "idle" /\ nPc' = "waiting" /\ nAddr' = a
    \/ \E d \in Dispatchers :
         /\ dPc[d] = "created" /\ dPc'[d] = "inflight"
         /\ \E j \in DOMAIN dOps'[d] :
              Batch(dHosts[d], dI[d])[j] = a /\ dOps'[d][j] = "waiting"

\* C29: every query addressed to a node address runs through a route whose
\* single-host whitelist is that address, never through the route created
\* for another address.
C29_RoutedToOwnHost ==
    [][\A a \in Addrs :
         QueryAccepted(a) => registered'[ProfileName(a)].whitelist = <<a>>]_vars

\* a step of connect() past the creation of the cluster handle, or a
\* disconnect(), called directly or by __aexit__
ConnectOrDisconnectStep ==
    \/ \E t \in ConnTasks :
         /\ connPc[t] \in {"open_session", "prepare"}
         /\ connPc'[t] # connPc[t] \/ connIdx'[t] # connIdx[t]
    \/ Quiet /\ obs'.call \in {"disconnect", "aexit"}

\* a step of execute_async, of execute_on_host, of a dispatch operation with
\* its get_all_hosts, or of one of their driver callbacks
QueryStep ==
    \/ qVars' # qVars \/ nVars' # nVars \/ dVars' # dVars
    \/ Quiet /\ obs'.call \in {"execute_async", "execute_on_node", "dispatch",
                               "loop_callback"}

\* C30: the connected flag and the prepared-statement cache change only in
\* steps of connect() and disconnect(); every step of execute_async,
\* execute_on_host and the dispatch operations, whether the query succeeds,
\* fails or times out, leaves both as they were.
C30_FrameEffects ==
    [][/\ (is_connected' # is_connected \/ prepared_statements' # prepared_statements)
            => ConnectOrDisconnectStep
       /\ QueryStep => UNCHANGED <<is_connected, prepared_statements>>]_vars

\* an execute_async on a Connected connection with all statements prepared
\* has timed out
C30_Witness ==
    /\ obs.call = "execute_async" /\ obs.events = <<"timeout">>
    /\ is_connected /\ prepared_statements = Range(StatementNames)

====
